---- MODULE Spec2Model ----
(***************************************************************************)
(* scaf: a project scaffolding generator (src/src/main.rs).                *)
(*                                                                         *)
(* A string (String, PathBuf) is a sequence of one-character strings, so   *)
(* that the regular expression, the trimming, the splitting and the        *)
(* substring test of the program are computed character by character.      *)
(* An option is such a string too.                                         *)
(*                                                                         *)
(* Two specifications:                                                     *)
(*   Spec     one run of main(), step by step (pc is main's position);     *)
(*   SpecTag  options_in_file and the tag stripping of create_file as pure *)
(*            functions over every path up to MaxLen characters.           *)
(***************************************************************************)
EXTENDS Integers, Sequences, FiniteSets

VARIABLES
    pc,             \* position of main(): the next step to run, or "exit"
    template_path,  \* args.template_path
    outdir,         \* what args.output_path is when the run starts
    out_created,    \* create_dir_all(args.output_path) has been called
    config,         \* Config.options as select_options lists it (keys sorted by label)
    chosen,         \* Vec<String> returned by select_options
    listing,        \* what read_dir(template_path) yields, in the order it yields it
    files,          \* Vec<File> returned by read_files_from_path
    filtered,       \* the local Vec `files` of dedupe_files, after the filter
    deduped,        \* HashSet<File> returned by dedupe_files
    out_files,      \* the files after replace_file_paths
    written,        \* what std::fs::write has put under args.output_path
    error,          \* the kind of failure the run ended with, "none" otherwise
    exit_code,      \* the process's exit code, -1 while it runs
    path_in,        \* SpecTag: the path given to options_in_file / create_file
    opts_out,       \* SpecTag: the Vec<String> options_in_file returned
    stripped_out,   \* SpecTag: File.path as create_file computed it
    tpc             \* SpecTag: "parse", "strip" or "done"

vars == <<pc, template_path, outdir, out_created, config, chosen, listing, files,
          filtered, deduped, out_files, written, error, exit_code,
          path_in, opts_out, stripped_out, tpc>>

runVars == <<pc, template_path, outdir, out_created, config, chosen, listing, files,
             filtered, deduped, out_files, written, error, exit_code>>

tagVars == <<path_in, opts_out, stripped_out, tpc>>

(***************************************************************************)
(* Bounds                                                                  *)
(***************************************************************************)
\* the longest path SpecTag gives to the tag parser
MaxLen == 6
\* the most entries read_dir(template_path) yields in a run
MaxFiles == 3
\* the most entries args.output_path holds when the run starts
MaxOutEntries == 1

(***************************************************************************)
(* Strings                                                                 *)
(***************************************************************************)
Min(S) == CHOOSE x \in S : \A y \in S : x <= y
Max(S) == CHOOSE x \in S : \A y \in S : x >= y

\* every sequence over S of length at most n
SeqsUpTo(S, n) == UNION {[1..k -> S] : k \in 0..n}

\* every Vec a HashSet with the elements S can be collected into (line 122):
\* the iteration order of a HashSet is unspecified
Orderings(S) ==
    {f \in [1..Cardinality(S) -> S] : \A i, j \in DOMAIN f : i # j => f[i] # f[j]}

\* every reordering of the sequence s
Permutations(s) ==
    LET n == Len(s)
        P == {p \in [1..n -> 1..n] : \A i, j \in 1..n : i # j => p[i] # p[j]}
    IN  {[i \in 1..n |-> s[p[i]]] : p \in P}

Range(s) == {s[i] : i \in DOMAIN s}

\* str::contains(pat)
Contains(s, pat) ==
    \E i \in 0..(Len(s) - Len(pat)) : \A k \in 1..Len(pat) : s[i + k] = pat[k]

IsBrace(c) == c = "{" \/ c = "}"

\* str::trim_matches(|c| c == '{' || c == '}'): every brace at either end goes
RECURSIVE trim_start(_)
trim_start(s) ==
    IF s # <<>> /\ IsBrace(Head(s)) THEN trim_start(Tail(s)) ELSE s

RECURSIVE trim_end(_)
trim_end(s) ==
    IF s # <<>> /\ IsBrace(s[Len(s)]) THEN trim_end(SubSeq(s, 1, Len(s) - 1)) ELSE s

trim_matches(s) == trim_end(trim_start(s))

\* str::split(c): the substrings between commas, the empty ones included
\* ("".split(',') yields one empty string)
RECURSIVE split_by(_, _)
split_by(s, c) ==
    LET seps == {i \in 1..Len(s) : s[i] = c}
    IN  IF seps = {} THEN <<s>>
        ELSE LET i == Min(seps)
             IN  <<SubSeq(s, 1, i - 1)>> \o split_by(SubSeq(s, i + 1, Len(s)), c)

split(s) == split_by(s, ",")

(***************************************************************************)
(* The regular expression \{.+\} (lines 103, 126)                          *)
(***************************************************************************)
\* Regex::find with `.*` in place of `.+`: an empty group matches
re_find_star(s) ==
    LET starts == {i \in 1..Len(s) :
                      s[i] = "{" /\ \E j \in (i + 1)..Len(s) : s[j] = "}"}
    IN  IF starts = {} THEN [found |-> FALSE, start |-> 0, end |-> 0]
        ELSE LET i == Min(starts)
             IN  [found |-> TRUE, start |-> i,
                  end |-> Max({j \in (i + 1)..Len(s) : s[j] = "}"})]

\* the leftmost match of \{.+\} in s: it starts at the first `{` that has a `}`
\* at least two characters on, and, `.+` being greedy and `.` matching every
\* character of a path, ends at the last `}` of s
re_find(s) ==
    LET starts == {i \in 1..Len(s) :
                      s[i] = "{" /\ \E j \in (i + 2)..Len(s) : s[j] = "}"}
    IN  IF starts = {} THEN [found |-> FALSE, start |-> 0, end |-> 0]
        ELSE LET i == Min(starts)
             IN  [found |-> TRUE, start |-> i,
                  end |-> Max({j \in (i + 2)..Len(s) : s[j] = "}"})]

\* Regex::replace_all(path, ""): every non-overlapping match is removed
RECURSIVE replace_all(_)
replace_all(s) ==
    LET m == re_find(s)
    IN  IF ~m.found THEN s
        ELSE SubSeq(s, 1, m.start - 1) \o replace_all(SubSeq(s, m.end + 1, Len(s)))

\* the HashSet `options` of options_in_file (lines 105-120): the regex has no
\* capture group, so c.iter() yields the whole match alone
option_set(path) ==
    LET m == re_find(path)
        caps == IF ~m.found THEN <<>>
                ELSE <<trim_matches(SubSeq(path, m.start, m.end))>>
    IN  UNION {Range(split(caps[i])) : i \in DOMAIN caps}

\* options_in_file: the Vecs it can return
options_in_file(path) == Orderings(option_set(path))

(***************************************************************************)
(* SpecTag: the tag parser over every short path                           *)
(***************************************************************************)
TagAlphabet == {"a", "b", ",", "{", "}"}

InitTag ==
    /\ path_in \in SeqsUpTo(TagAlphabet, MaxLen)
    /\ opts_out = <<>>
    /\ stripped_out = <<>>
    /\ tpc = "parse"
    /\ pc = "exit"
    /\ template_path = <<>>
    /\ outdir = "absent"
    /\ out_created = FALSE
    /\ config = <<>>
    /\ chosen = <<>>
    /\ listing = <<>>
    /\ files = <<>>
    /\ filtered = <<>>
    /\ deduped = {}
    /\ out_files = {}
    /\ written = {}
    /\ error = "none"
    /\ exit_code = -1

\* let options = options_in_file(&path)
ParseOptions ==
    /\ tpc = "parse"
    /\ opts_out' \in options_in_file(path_in)
    /\ tpc' = "strip"
    /\ UNCHANGED <<path_in, stripped_out>>
    /\ UNCHANGED runVars

\* create_file: let path = re.replace_all(&path, "")
StripTags ==
    /\ tpc = "strip"
    /\ stripped_out' = replace_all(path_in)
    /\ tpc' = "done"
    /\ UNCHANGED <<path_in, opts_out>>
    /\ UNCHANGED runVars

NextTag == ParseOptions \/ StripTags

SpecTag == InitTag /\ [][NextTag]_vars

(***************************************************************************)
(* Paths (std::path)                                                       *)
(***************************************************************************)
\* Path::components of a relative path: the non-empty pieces between
\* separators (repeated and trailing separators do not count)
Components(p) ==
    LET NonEmpty(x) == x # <<>>
    IN  SelectSeq(split_by(p, "/"), NonEmpty)

\* PathBuf's == (and Hash): component by component
path_eq(p, q) == Components(p) = Components(q)

\* read_dir(dir) names an entry dir.join(file_name)
entry_path(dir, name) == dir \o <<"/">> \o name

\* Path::strip_prefix(base): Ok(the components that follow base), or Err
strip_prefix(p, base) ==
    LET cp == Components(p)
        cb == Components(base)
    IN  IF Len(cb) <= Len(cp) /\ SubSeq(cp, 1, Len(cb)) = cb
        THEN [ok |-> TRUE, rest |-> SubSeq(cp, Len(cb) + 1, Len(cp))]
        ELSE [ok |-> FALSE, rest |-> <<>>]

RECURSIVE join_components(_)
join_components(cs) ==
    IF cs = <<>> THEN <<>>
    ELSE IF Len(cs) = 1 THEN cs[1]
    ELSE cs[1] \o <<"/">> \o join_components(Tail(cs))

\* PathBuf::join(stripped)
join(base, cs) == base \o <<"/">> \o join_components(cs)

(***************************************************************************)
(* The run's inputs                                                        *)
(***************************************************************************)
ConfigName == <<"s", "c", "a", "f", ".", "t", "o", "m", "l">>

OptX == <<"x">>
OptY == <<"y">>
\* the keys of scaf.toml's options table, in the order of their labels
Catalog == <<OptX, OptY>>

\* args.template_path
TemplateRoots == {<<"t">>, <<"t", "{", "x", "}">>}

\* args.output_path
OutputPath == <<"o">>

\* the entries a template directory may hold: name, contents and status,
\* "ok" a file that reads as UTF-8, "unreadable" a file read_to_string fails
\* on, "listerr" an entry the iterator of read_dir yields as Err
TemplateFiles ==
    { [name |-> <<"a">>, contents |-> "A", status |-> "ok"],
      [name |-> <<"b", "{", "x", "}">>, contents |-> "BX", status |-> "ok"],
      [name |-> <<"b", "{", "y", "}">>, contents |-> "BY", status |-> "ok"],
      [name |-> <<"b", "{", "x", ",", "y", "}">>, contents |-> "BXY", status |-> "ok"],
      [name |-> <<"b", "{", "y", ",", "x", "}">>, contents |-> "BXY", status |-> "ok"],
      [name |-> ConfigName, contents |-> "CFG", status |-> "ok"],
      [name |-> ConfigName \o <<"~">>, contents |-> "OLD", status |-> "ok"],
      [name |-> <<"u">>, contents |-> "", status |-> "unreadable"],
      [name |-> <<"e">>, contents |-> "", status |-> "listerr"] }

\* what read_dir(template_path) may yield: distinct entries in any order
Listings ==
    UNION { {f \in [1..n -> TemplateFiles] : \A i, j \in 1..n : i # j => f[i] # f[j]} :
            n \in 0..MaxFiles }

\* args.output_path when the run starts: no such directory, a directory that
\* read_dir fails on for another reason, or a directory with `count` entries
OutDirs ==
    {[kind |-> "absent", count |-> 0], [kind |-> "denied", count |-> 0]}
    \cup {[kind |-> "dir", count |-> n] : n \in 0..MaxOutEntries}

(***************************************************************************)
(* read_files_from_path, create_file (lines 75-97, 125-137)                *)
(***************************************************************************)
\* create_file once read_to_string has returned `contents`
create_file(path, contents, options) ==
    [path |-> replace_all(path), contents |-> contents, depends_on |-> options]

\* path.contains("scaf.toml")
is_config(path) == Contains(path, ConfigName)

\* the loop of read_files_from_path over the entries left, f_vec so far:
\* the set of its outcomes (one per order options_in_file may return)
RECURSIVE read_loop(_, _, _)
read_loop(dir, entries, f_vec) ==
    IF entries = <<>> THEN {[panicked |-> FALSE, f_vec |-> f_vec]}
    ELSE LET e == Head(entries)
             path == entry_path(dir, e.name)
         IN  IF e.status = "listerr" THEN read_loop(dir, Tail(entries), f_vec)
             ELSE IF is_config(path) THEN read_loop(dir, Tail(entries), f_vec)
             ELSE IF e.status = "unreadable"
                  THEN {[panicked |-> TRUE, f_vec |-> f_vec]}
             ELSE UNION { read_loop(dir, Tail(entries),
                                    Append(f_vec, create_file(path, e.contents, o))) :
                          o \in options_in_file(path) }

read_files_from_path(dir, entries) == read_loop(dir, entries, <<>>)

(***************************************************************************)
(* dedupe_files (lines 153-196)                                            *)
(***************************************************************************)
\* File's derived ==: path, contents and depends_on (a Vec: in order)
file_eq(f, g) ==
    /\ path_eq(f.path, g.path)
    /\ f.contents = g.contents
    /\ f.depends_on = g.depends_on

\* HashSet::insert
insert(set, f) == IF \E g \in set : file_eq(f, g) THEN set ELSE set \cup {f}

\* f.depends_on.iter().any(..) in place of all(..)
passes_filter_any(f, ch) ==
    \E i \in DOMAIN f.depends_on : \E j \in DOMAIN ch : ch[j] = f.depends_on[i]

\* f.depends_on.iter().all(|o| chosen.contains(o))
passes_filter(f, ch) ==
    \A i \in DOMAIN f.depends_on : \E j \in DOMAIN ch : ch[j] = f.depends_on[i]

\* the filter of lines 154-158
filter_files(fs, ch) ==
    LET Keep(f) == passes_filter(f, ch)
    IN  SelectSeq(fs, Keep)

\* the least depends_on length in place of the greatest
min_specificity(dups) == Min({Len(dups[i].depends_on) : i \in DOMAIN dups})

\* the first duplicate's depends_on length in place of the greatest
first_specificity(dups) == Len(dups[1].depends_on)

\* dups.iter().map(|a| a.depends_on.len()).max().unwrap()
max_specificity(dups) == Max({Len(dups[i].depends_on) : i \in DOMAIN dups})

\* a tie is never reported: maxes[0] is kept
is_ambiguous_never(maxes) == FALSE

\* maxes.len() > 1
is_ambiguous(maxes) == Len(maxes) > 1

\* the loop of lines 162-193 from files[k] on, deduped_files so far
RECURSIVE dedupe_loop(_, _, _)
dedupe_loop(fs, k, acc) ==
    IF k > Len(fs) THEN [aborted |-> FALSE, deduped |-> acc]
    ELSE LET f == fs[k]
             SamePath(g) == path_eq(f.path, g.path)
             dups == SelectSeq(fs, SamePath)
             max == max_specificity(dups)
             IsMax(g) == Len(g.depends_on) = max
             maxes == SelectSeq(dups, IsMax)
         IN  IF Len(dups) > 1
             THEN IF is_ambiguous(maxes)
                  THEN [aborted |-> TRUE, deduped |-> acc]
                  ELSE dedupe_loop(fs, k + 1, insert(acc, maxes[1]))
             ELSE dedupe_loop(fs, k + 1, insert(acc, f))

\* dedupe_files: whether it called process::exit(1), its local `files` after
\* the filter, and the set it returns
dedupe_files(fs, ch) ==
    LET kept == filter_files(fs, ch)
        r == dedupe_loop(kept, 1, {})
    IN  [aborted |-> r.aborted, filtered |-> kept, deduped |-> r.deduped]

(***************************************************************************)
(* main (lines 13-56)                                                      *)
(***************************************************************************)
\* count() != 0 never holds: the directory is taken as empty
dir_not_empty_never(od) == FALSE

\* d.into_iter().count() != 0
dir_not_empty(od) == od.count # 0

Init ==
    /\ pc = "check_path"
    /\ template_path \in TemplateRoots
    /\ outdir \in OutDirs
    /\ out_created = FALSE
    /\ config = <<>>
    /\ chosen = <<>>
    /\ listing = <<>>
    /\ files = <<>>
    /\ filtered = <<>>
    /\ deduped = {}
    /\ out_files = {}
    /\ written = {}
    /\ error = "none"
    /\ exit_code = -1
    /\ path_in = <<>>
    /\ opts_out = <<>>
    /\ stripped_out = <<>>
    /\ tpc = "done"

\* process::exit(code) after the message of kind `kind`; a panic exits with 101
Exit(kind, code) ==
    /\ pc' = "exit"
    /\ error' = kind
    /\ exit_code' = code

\* lines 17-20
CheckTemplatePath ==
    /\ pc = "check_path"
    /\ \E exists \in BOOLEAN :
          IF exists
          THEN pc' = "load_config" /\ UNCHANGED <<error, exit_code>>
          ELSE Exit("PathNotFound", 1)
    /\ UNCHANGED <<template_path, outdir, out_created, config, chosen, listing, files,
                   filtered, deduped, out_files, written>>
    /\ UNCHANGED tagVars

\* line 22, Config::from_base (lines 221-238); config is the options table as
\* line 141 sorts it
LoadConfig ==
    /\ pc = "load_config"
    /\ \E ok \in BOOLEAN :
          IF ok
          THEN /\ config' = Catalog
               /\ pc' = "select_options"
               /\ UNCHANGED <<error, exit_code>>
          ELSE /\ Exit("ConfigError", 1)
               /\ UNCHANGED config
    /\ UNCHANGED <<template_path, outdir, out_created, chosen, listing, files,
                   filtered, deduped, out_files, written>>
    /\ UNCHANGED tagVars

\* the items of `s` at the indexes `idx`, in order
RECURSIVE pick(_, _, _)
pick(s, idx, i) ==
    IF i > Len(s) THEN <<>>
    ELSE (IF i \in idx THEN <<s[i]>> ELSE <<>>) \o pick(s, idx, i + 1)

\* line 24, select_options (lines 139-151): the prompt returns indexes into the
\* sorted catalog
SelectOptions ==
    /\ pc = "select_options"
    /\ \E idx \in SUBSET (1..Len(config)) : chosen' = pick(config, idx, 1)
    /\ pc' = "read_files"
    /\ UNCHANGED <<template_path, outdir, out_created, config, listing, files,
                   filtered, deduped, out_files, written, error, exit_code>>
    /\ UNCHANGED tagVars

\* line 25, read_files_from_path
ReadFiles ==
    /\ pc = "read_files"
    /\ \E entries \in Listings :
          /\ listing' = entries
          /\ \E r \in read_files_from_path(template_path, entries) :
                /\ files' = r.f_vec
                /\ IF r.panicked
                   THEN Exit("panic", 101)
                   ELSE pc' = "dedupe" /\ UNCHANGED <<error, exit_code>>
    /\ UNCHANGED <<template_path, outdir, out_created, config, chosen,
                   filtered, deduped, out_files, written>>
    /\ UNCHANGED tagVars

\* line 27, dedupe_files
DedupeFiles ==
    /\ pc = "dedupe"
    /\ LET r == dedupe_files(files, chosen)
       IN  /\ filtered' = r.filtered
           /\ IF r.aborted
              THEN Exit("AmbiguousConflict", 1) /\ UNCHANGED deduped
              ELSE /\ deduped' = r.deduped
                   /\ pc' = "check_output"
                   /\ UNCHANGED <<error, exit_code>>
    /\ UNCHANGED <<template_path, outdir, out_created, config, chosen, listing, files,
                   out_files, written>>
    /\ UNCHANGED tagVars

\* lines 29-45; create_dir_all is taken to succeed on an absent directory
CheckOutput ==
    /\ pc = "check_output"
    /\ IF outdir.kind = "dir"
       THEN IF dir_not_empty(outdir)
            THEN Exit("OutputNotEmpty", 1) /\ UNCHANGED out_created
            ELSE pc' = "replace_paths" /\ UNCHANGED <<out_created, error, exit_code>>
       ELSE IF outdir.kind = "absent"
            THEN /\ out_created' = TRUE
                 /\ pc' = "replace_paths"
                 /\ UNCHANGED <<error, exit_code>>
            ELSE Exit("OutputError", 1) /\ UNCHANGED out_created
    /\ UNCHANGED <<template_path, outdir, config, chosen, listing, files,
                   filtered, deduped, out_files, written>>
    /\ UNCHANGED tagVars

\* lines 47-49, replace_file_paths (lines 64-73)
ReplaceFilePaths ==
    /\ pc = "replace_paths"
    /\ IF \A f \in deduped : strip_prefix(f.path, template_path).ok
       THEN /\ out_files' =
                  {[f EXCEPT !.path = join(OutputPath,
                                           strip_prefix(f.path, template_path).rest)] :
                     f \in deduped}
            /\ pc' = "write_files"
            /\ UNCHANGED <<error, exit_code>>
       ELSE /\ Exit("PathError", 101)
            /\ UNCHANGED out_files
    /\ UNCHANGED <<template_path, outdir, out_created, config, chosen, listing, files,
                   filtered, deduped, written>>
    /\ UNCHANGED tagVars

\* line 55, write_files (lines 58-62); main then returns. Every resolved file
\* lands directly under the output directory, which exists by now, and
\* std::fs::write is taken to succeed there
WriteFiles ==
    /\ pc = "write_files"
    /\ written' = {[path |-> f.path, contents |-> f.contents] : f \in out_files}
    /\ Exit("none", 0)
    /\ UNCHANGED <<template_path, outdir, out_created, config, chosen, listing, files,
                   filtered, deduped, out_files>>
    /\ UNCHANGED tagVars

Next ==
    \/ CheckTemplatePath
    \/ LoadConfig
    \/ SelectOptions
    \/ ReadFiles
    \/ DedupeFiles
    \/ CheckOutput
    \/ ReplaceFilePaths
    \/ WriteFiles

Spec == Init /\ [][Next]_vars

(***************************************************************************)
(* Where a run has got to                                                  *)
(***************************************************************************)
\* read_files_from_path was called (it returned, or it panicked)
ReadRan ==
    \/ pc \in {"dedupe", "check_output", "replace_paths", "write_files"}
    \/ pc = "exit" /\ error \notin {"PathNotFound", "ConfigError"}

\* read_files_from_path returned
ReadReturned == ReadRan /\ error # "panic"

\* dedupe_files was called
DedupeRan == ReadReturned /\ pc # "dedupe"

\* dedupe_files has just returned, or has just ended the run
DedupeDone ==
    \/ pc = "check_output"
    \/ pc = "exit" /\ error = "AmbiguousConflict"

\* the match of lines 29-45 was evaluated
GuardRan == DedupeRan /\ pc # "check_output" /\ error # "AmbiguousConflict"

\* the entries of the listing that are files read_to_string succeeds on
Readable == {i \in DOMAIN listing : listing[i].status = "ok"}

\* the records of fs at the output path of fs[i]
Group(fs, i) == {j \in DOMAIN fs : path_eq(fs[j].path, fs[i].path)}

\* the records of that group with the greatest depends_on size
Top(fs, i) ==
    {j \in Group(fs, i) :
        \A k \in Group(fs, i) : Len(fs[k].depends_on) <= Len(fs[j].depends_on)}

C2_OnePerPath ==
    (DedupeDone /\ \A i \in DOMAIN filtered : Cardinality(Top(filtered, i)) = 1) =>
        /\ error # "AmbiguousConflict"
        /\ \A i \in DOMAIN filtered :
              LET here == {f \in deduped : path_eq(f.path, filtered[i].path)}
              IN  /\ Cardinality(here) = 1
                  /\ \A f \in here : \A j \in Top(filtered, i) : f = filtered[j]
        /\ deduped \subseteq Range(filtered)

\* a run in which records of depends_on sizes 1 and 2 met at one output path
\* and the one of size 2 was kept
C2_Witness ==
    /\ DedupeDone
    /\ error # "AmbiguousConflict"
    /\ \E i, j \in DOMAIN filtered :
          /\ j \in Group(filtered, i)
          /\ Len(filtered[i].depends_on) = 1
          /\ Len(filtered[j].depends_on) = 2
          /\ filtered[j] \in deduped
          /\ filtered[i] \notin deduped

(***************************************************************************)
(* C3                                                                      *)
(***************************************************************************)
\* two filtered records share an output path and tie at its greatest
\* depends_on size
Tie(fs) == \E i \in DOMAIN fs : Cardinality(Top(fs, i)) > 1

\* C3: in a run where two or more filtered records share an output path and tie
\* at the greatest depends_on size of that path, the run ends with the
\* ambiguous-conflict error and exit code 1, and from the start to the end of
\* that run nothing is written and the output directory is not created.
C3_AmbiguityAborts ==
    (DedupeRan /\ Tie(filtered)) =>
        /\ pc = "exit"
        /\ error = "AmbiguousConflict"
        /\ exit_code = 1
        /\ written = {}
        /\ out_files = {}
        /\ ~out_created

\* a run that aborted on a tie while another output path had a single record
C3_Witness ==
    /\ DedupeRan
    /\ Tie(filtered)
    /\ error = "AmbiguousConflict"
    /\ \E i \in DOMAIN filtered : Cardinality(Group(filtered, i)) = 1

(***************************************************************************)
(* C4                                                                      *)
(***************************************************************************)
OutNonEmpty == outdir.kind = "dir" /\ outdir.count >= 1
OutEmpty == outdir.kind = "dir" /\ outdir.count = 0
OutAbsent == outdir.kind = "absent"

BraceGroups(s) ==
    {g \in (1..Len(s)) \X (1..Len(s)) :
        /\ g[1] < g[2]
        /\ s[g[1]] = "{"
        /\ s[g[2]] = "}"
        /\ \A k \in (g[1] + 1)..(g[2] - 1) : ~IsBrace(s[k])}

\* the only brace group of s is the empty one
OnlyEmptyGroup(s) ==
    /\ Cardinality(BraceGroups(s)) = 1
    /\ \A g \in BraceGroups(s) : g[2] = g[1] + 1

\* the only brace characters of s are those of one empty group
OnlyEmptyBraces(s) ==
    \E i \in 1..(Len(s) - 1) :
        /\ s[i] = "{"
        /\ s[i + 1] = "}"
        /\ \A k \in 1..Len(s) : IsBrace(s[k]) => k \in {i, i + 1}

\* C5 as stated: for a path whose only brace group is the empty group,
\* options_in_file returns exactly one option, the empty string.
C5_AsStated ==
    (tpc # "parse" /\ OnlyEmptyGroup(path_in)) => Range(opts_out) = {<<>>}

\* C5 amended: for a path whose only brace characters are those of an empty
\* group `{}`, options_in_file returns no option at all, and create_file leaves
\* the path as it is.
C5_EmptyGroupNoOption ==
    OnlyEmptyBraces(path_in) =>
        /\ tpc # "parse" => opts_out = <<>>
        /\ tpc = "done" => stripped_out = path_in

\* the parser has run on a path with text around an empty group
C5_Witness ==
    /\ tpc = "done"
    /\ OnlyEmptyBraces(path_in)
    /\ Len(path_in) > 2
    /\ opts_out = <<>>

\* C6: for a path with more than one brace group, the options parsed are the
\* comma-separated tokens of the first group, and none of them holds a brace.
C6_FirstGroupOnly ==
    (tpc # "parse" /\ Cardinality(BraceGroups(path_in)) > 1) =>
        LET first == CHOOSE g \in BraceGroups(path_in) :
                         \A h \in BraceGroups(path_in) : g[1] <= h[1]
        IN  /\ Range(opts_out) =
                  Range(split(SubSeq(path_in, first[1] + 1, first[2] - 1)))
            /\ \A o \in Range(opts_out) : \A k \in DOMAIN o : ~IsBrace(o[k])

(***************************************************************************)
(* C7, C8, C9: discovery                                                   *)
(***************************************************************************)
\* C7: when read_files_from_path returns, it has one record for every readable
\* file of the listing except the file named scaf.toml.
C7_DiscoversAllButConfig ==
    ReadReturned =>
        LET wanted == {i \in Readable : listing[i].name # ConfigName}
        IN  /\ Len(files) = Cardinality(wanted)
            /\ \A i \in wanted :
                  \E k \in DOMAIN files : files[k].contents = listing[i].contents

\* C8: an entry that cannot be listed or cannot be read never makes the run
\* panic; discovery goes on and returns the records of the other files.
C8_FaultsAreSkipped ==
    ReadRan =>
        /\ error # "panic"
        /\ Len(files) =
              Cardinality({i \in Readable :
                              ~is_config(entry_path(template_path, listing[i].name))})

\* C9: every discovered record's path still starts with the template root,
\* and replace_file_paths never fails.
C9_PrefixKept ==
    /\ ReadRan => \A k \in DOMAIN files : strip_prefix(files[k].path, template_path).ok
    /\ error # "PathError"

(***************************************************************************)
(* C10                                                                     *)
(***************************************************************************)
\* C10: whatever order the discovered records and the chosen options are in,
\* dedupe_files ends the same way: it aborts for every order or for none, and
\* when it returns it returns the same set of records.
C10_OrderIndependent ==
    DedupeDone =>
        \A fs \in Permutations(files) : \A ch \in Permutations(chosen) :
            LET r == dedupe_files(fs, ch)
            IN  /\ r.aborted <=> error = "AmbiguousConflict"
                /\ ~r.aborted => r.deduped = deduped

\* a run that resolved a group of two records with two options chosen
C10_Witness ==
    /\ DedupeDone
    /\ error # "AmbiguousConflict"
    /\ Len(chosen) = 2
    /\ \E i \in DOMAIN filtered : Cardinality(Group(filtered, i)) > 1

====
